---- MODULE Spec2Model ----
(***************************************************************************)
(* A model of the Lox front end: Scanner::tokens (src/src/scanner.rs) as a *)
(* state machine with one action per arm of its `match c`, and             *)
(* Parser::parse (src/src/parser.rs) as the recursive-descent functions it *)
(* is made of.  Characters are one-element strings; a source is a sequence *)
(* of characters; Rust's byte slicing of the source is modelled on the     *)
(* UTF-8 width of each character.                                          *)
(***************************************************************************)
EXTENDS Integers, Sequences, FiniteSets, TLC

(***************************************************************************)
(* Characters                                                              *)
(***************************************************************************)
NL == "\n"
CR == "\r"
TAB == "\t"
QUOTE == "\""
BACKSLASH == "\\"
\* U+00E9, a character whose UTF-8 encoding is two bytes long.
EACUTE == "U+00E9"

Digits == {"0", "1", "2", "3", "4", "5", "6", "7", "8", "9"}

Letters ==
    {"a", "b", "c", "d", "e", "f", "g", "h", "i", "j", "k", "l", "m",
     "n", "o", "p", "q", "r", "s", "t", "u", "v", "w", "x", "y", "z",
     "A", "B", "C", "D", "E", "F", "G", "H", "I", "J", "K", "L", "M",
     "N", "O", "P", "Q", "R", "S", "T", "U", "V", "W", "X", "Y", "Z"}

\* char::is_ascii_digit
IsAsciiDigit(ch) == ch \in Digits

\* c == '_' || c.is_ascii_alphabetic()
IsSymbolStart(ch) == ch = "_" \/ ch \in Letters

\* *c == '_' || c.is_ascii_alphanumeric()
IsSymbolPart(ch) == ch = "_" \/ ch \in Letters \/ ch \in Digits

\* The arms '(' .. '*' of the match: one character, one token.
SingleCharToken(ch) ==
    CASE ch = "(" -> "LeftParen"
      [] ch = ")" -> "RightParen"
      [] ch = "{" -> "LeftBrace"
      [] ch = "}" -> "RightBrace"
      [] ch = "," -> "Comma"
      [] ch = "." -> "Dot"
      [] ch = "-" -> "Minus"
      [] ch = "+" -> "Plus"
      [] ch = ";" -> "Semicolon"
      [] ch = "*" -> "Star"

SingleChars == {"(", ")", "{", "}", ",", ".", "-", "+", ";", "*"}

\* The arms '!', '=', '<', '>': the token without and with a following '='.
OneCharKind(ch) ==
    CASE ch = "!" -> "Bang"
      [] ch = "=" -> "Equal"
      [] ch = "<" -> "Less"
      [] ch = ">" -> "Greater"

TwoCharKind(ch) ==
    CASE ch = "!" -> "BangEqual"
      [] ch = "=" -> "EqualEqual"
      [] ch = "<" -> "LessEqual"
      [] ch = ">" -> "GreaterEqual"

OperatorChars == {"!", "=", "<", ">"}

BlankChars == {" ", CR, TAB}

(***************************************************************************)
(* Sequences of characters                                                 *)
(***************************************************************************)
\* The sequence s without its first n elements.
Drop(s, n) == IF n >= Len(s) THEN << >> ELSE SubSeq(s, n + 1, Len(s))

\* The first n elements of s.
Take(s, n) == IF n >= Len(s) THEN s ELSE SubSeq(s, 1, n)

\* Iterator::position: the 0-based index of the first element of s in the
\* set stop, or -1 for None.
Position(s, stop) ==
    IF \E i \in 1..Len(s) : s[i] \in stop
    THEN (CHOOSE i \in 1..Len(s) :
              s[i] \in stop /\ \A j \in 1..(i - 1) : s[j] \notin stop) - 1
    ELSE -1

\* Iterator::take_while(..).count() over a set of accepted characters.
CountWhile(s, accept) ==
    IF \E i \in 1..Len(s) : s[i] \notin accept
    THEN (CHOOSE i \in 1..Len(s) :
              s[i] \notin accept /\ \A j \in 1..(i - 1) : s[j] \in accept) - 1
    ELSE Len(s)

(***************************************************************************)
(* UTF-8 byte offsets: &self.source[a..b] slices by byte, the scanner's    *)
(* index counts characters.                                                *)
(***************************************************************************)
Utf8Len(ch) == IF ch = EACUTE THEN 2 ELSE 1

RECURSIVE ByteLen(_)
ByteLen(s) == IF s = << >> THEN 0 ELSE Utf8Len(Head(s)) + ByteLen(Tail(s))

\* str::is_char_boundary
IsCharBoundary(s, b) == \E k \in 0..Len(s) : ByteLen(Take(s, k)) = b

CharsBefore(s, b) == CHOOSE k \in 0..Len(s) : ByteLen(Take(s, k)) = b

\* &s[from..to]: the characters of the byte range, or a panic when an end is
\* not on a character boundary or out of range.
ByteSlice(s, from, to) ==
    IF from <= to /\ IsCharBoundary(s, from) /\ IsCharBoundary(s, to)
    THEN [ok |-> TRUE,
          chars |-> SubSeq(s, CharsBefore(s, from) + 1, CharsBefore(s, to))]
    ELSE [ok |-> FALSE, chars |-> << >>]

(***************************************************************************)
(* str::lines, the keyword table and f32 parsing                           *)
(***************************************************************************)
\* A line without the "\r" of a "\r\n" terminator.
StripCR(l) == IF l # << >> /\ l[Len(l)] = CR THEN SubSeq(l, 1, Len(l) - 1) ELSE l

\* str::lines: the text split after every "\n", terminators removed; text
\* after the last "\n" is a line only when it is not empty.
RECURSIVE Lines(_)
Lines(s) ==
    IF s = << >> THEN << >>
    ELSE LET p == Position(s, {NL})
         IN  IF p = -1 THEN << s >>
             ELSE << StripCR(Take(s, p)) >> \o Lines(Drop(s, p + 1))

\* self.source.lines().nth(n).expect("currrent line must be in source")
LineNth(s, n) ==
    IF n + 1 <= Len(Lines(s))
    THEN [ok |-> TRUE, chars |-> Lines(s)[n + 1]]
    ELSE [ok |-> FALSE, chars |-> << >>]

\* The match on &symbol[..length]: a keyword's token, or Identifier.
KeywordOf(lexeme) ==
    CASE lexeme = <<"a", "n", "d">> -> "And"
      [] lexeme = <<"c", "l", "a", "s", "s">> -> "Class"
      [] lexeme = <<"e", "l", "s", "e">> -> "Else"
      [] lexeme = <<"f", "a", "l", "s", "e">> -> "False"
      [] lexeme = <<"f", "u", "n">> -> "Fun"
      [] lexeme = <<"f", "o", "r">> -> "For"
      [] lexeme = <<"i", "f">> -> "If"
      [] lexeme = <<"n", "i", "l">> -> "Nil"
      [] lexeme = <<"o", "r">> -> "Or"
      [] lexeme = <<"p", "r", "i", "n", "t">> -> "Print"
      [] lexeme = <<"r", "e", "t", "u", "r", "n">> -> "Return"
      [] lexeme = <<"s", "u", "p", "e", "r">> -> "Super"
      [] lexeme = <<"t", "h", "i", "s">> -> "This"
      [] lexeme = <<"t", "r", "u", "e">> -> "True"
      [] lexeme = <<"v", "a", "r">> -> "Var"
      [] lexeme = <<"w", "h", "i", "l", "e">> -> "While"
      [] OTHER -> "Identifier"

\* Leading "0"s removed, one digit kept.
RECURSIVE StripLeadingZeros(_)
StripLeadingZeros(d) ==
    IF Len(d) > 1 /\ Head(d) = "0" THEN StripLeadingZeros(Tail(d)) ELSE d

\* Trailing "0"s removed.
RECURSIVE StripTrailingZeros(_)
StripTrailingZeros(d) ==
    IF d # << >> /\ d[Len(d)] = "0"
    THEN StripTrailingZeros(SubSeq(d, 1, Len(d) - 1))
    ELSE d

\* str::parse::<f32> on the decimal forms a source can hold here: an optional
\* sign, digits, at most one ".", at least one digit.  The value is given as
\* its canonical decimal text, so that "000.3" and "0.3", "2.0" and "2" are
\* the same number.  Any other text is an Err, which .expect turns into a
\* panic.  (Exponents, "inf" and "nan" are left out: no source drawn below
\* puts such a text into a slice that is parsed.)
ParseF32(text) ==
    LET signed == text # << >> /\ Head(text) \in {"+", "-"}
        body   == IF signed THEN Tail(text) ELSE text
        dot    == Position(body, {"."})
        int    == IF dot = -1 THEN body ELSE Take(body, dot)
        frac   == IF dot = -1 THEN << >> ELSE Drop(body, dot + 1)
        valid  == /\ \A i \in 1..Len(int) : int[i] \in Digits
                  /\ \A i \in 1..Len(frac) : frac[i] \in Digits
                  /\ Len(int) + Len(frac) > 0
        i0     == IF int = << >> THEN << "0" >> ELSE StripLeadingZeros(int)
        f0     == StripTrailingZeros(frac)
        mag    == IF f0 = << >> THEN i0 ELSE i0 \o << "." >> \o f0
        neg    == signed /\ Head(text) = "-" /\ mag # << "0" >>
    IN  IF valid
        THEN [ok |-> TRUE, chars |-> IF neg THEN << "-" >> \o mag ELSE mag]
        ELSE [ok |-> FALSE, chars |-> << >>]

(***************************************************************************)
(* Scanner::tokens                                                         *)
(*                                                                         *)
(* source                the text being scanned (Scanner::source)          *)
(* pos                   how many characters the iterator `source` of      *)
(*                       tokens() has yielded                              *)
(* line                  0-based line counter of tokens()                  *)
(* last_newline_position character index just after the last newline seen *)
(* tokens                the Vec<Token> being built                        *)
(* outcome               "scanning" inside the while loop, then "ok" for   *)
(*                       Ok(tokens), "err" for an Err(LoxError), "panic"   *)
(* error                 the LoxError returned when outcome = "err"        *)
(*                                                                         *)
(* Parser::parse                                                           *)
(* parser_tokens         the token kinds of the slice given to Parser::new *)
(* parser_lexemes        the lexeme (bytes) each of those tokens was built *)
(*                       from                                              *)
(* parser_state          "idle" (no parser), "ready" (after Parser::new),  *)
(*                       "done" (after parse()), "shown" (after println!)  *)
(* parsed                what parse() returned                             *)
(* displayed             the bytes println!("{}", ast) wrote               *)
(*                                                                         *)
(* Token                                                                   *)
(* token_a_args, token_b_args  the arguments of two calls of Token::new    *)
(* token_a, token_b      the tokens they returned                          *)
(* token_state           "idle", "args", "built", "compared"               *)
(* tokens_equal          what token_a == token_b returned                  *)
(*                                                                         *)
(* PeekableLineColIterator                                                 *)
(* tracker_chars         the characters the wrapped iterator was made over *)
(* tracker_iter          the characters the wrapped iterator still holds   *)
(* tracker_line, tracker_column, tracker_start_of_line, tracker_peeked     *)
(*                       the fields line, column, start_of_line, peeked    *)
(* tracker_returned      the characters next() has returned, in order      *)
(* tracker_call          the last call made and what it returned           *)
(*                                                                         *)
(* Error                                                                   *)
(* shown_error           the error value given to Display                  *)
(* diagnostic            the lines Display wrote for it                    *)
(***************************************************************************)
VARIABLES source, pos, line, last_newline_position, tokens, outcome, error,
          parser_tokens, parser_lexemes, parser_state, parsed, displayed,
          token_a_args, token_b_args, token_a, token_b, token_state, tokens_equal,
          tracker_chars, tracker_iter, tracker_line, tracker_column,
          tracker_start_of_line, tracker_peeked, tracker_returned, tracker_call,
          shown_error, diagnostic

scanner_vars == << source, pos, line, last_newline_position, tokens, outcome, error >>
parser_vars == << parser_tokens, parser_lexemes, parser_state, parsed, displayed >>
token_vars == << token_a_args, token_b_args, token_a, token_b, token_state, tokens_equal >>
tracker_vars == << tracker_chars, tracker_iter, tracker_line, tracker_column,
                  tracker_start_of_line, tracker_peeked, tracker_returned, tracker_call >>
error_vars == << shown_error, diagnostic >>
vars == << scanner_vars, parser_vars, token_vars, tracker_vars, error_vars >>

\* What a step of one component leaves alone: the other components.
not_scanner_vars == << parser_vars, token_vars, tracker_vars, error_vars >>
not_parser_vars == << scanner_vars, token_vars, tracker_vars, error_vars >>
not_token_vars == << scanner_vars, parser_vars, tracker_vars, error_vars >>
not_tracker_vars == << scanner_vars, parser_vars, token_vars, error_vars >>
not_error_vars == << scanner_vars, parser_vars, token_vars, tracker_vars >>

NoError == [kind |-> "None", source_line |-> << >>, line_number |-> 0, column_number |-> 0]

\* A token of the scanner: its variant and, for String, Number and
\* Identifier, the text (for Number, the value) it carries.
Tok(kind) == [kind |-> kind, text |-> << >>]
TokText(kind, text) == [kind |-> kind, text |-> text]

\* while let Some((index, c)) = source.next()
Scanning == outcome = "scanning" /\ pos < Len(source)
index == pos
c == source[pos + 1]
\* column = (index - last_newline_position) + 1
column == (index - last_newline_position) + 1
\* What source.clone() yields after c: the characters not yet consumed.
Lookahead == Drop(source, pos + 1)
\* source.peek().map(|t| t.1), "" for None
PeekChar == IF pos + 2 <= Len(source) THEN source[pos + 2] ELSE ""

\* tokens.push(token) after consuming `consumed` characters, c included.
Emit(token, consumed) ==
    /\ tokens' = Append(tokens, token)
    /\ pos' = pos + consumed
    /\ UNCHANGED << source, line, last_newline_position, outcome, error >>

\* `continue` after consuming `consumed` characters, c included.
Skip(consumed, newLine, newLast) ==
    /\ pos' = pos + consumed
    /\ line' = newLine
    /\ last_newline_position' = newLast
    /\ UNCHANGED << source, tokens, outcome, error >>

\* return Err(LoxError::kind { source_line: lines().nth(atLine), .. }); the
\* .expect on the line panics when the source has no such line.
ReturnErr(kind, atLine, atColumn) ==
    /\ IF LineNth(source, atLine).ok
       THEN /\ outcome' = "err"
            /\ error' = [kind |-> kind,
                         source_line |-> LineNth(source, atLine).chars,
                         line_number |-> atLine + 1,
                         column_number |-> atColumn]
       ELSE /\ outcome' = "panic"
            /\ error' = NoError
    /\ UNCHANGED << source, pos, line, last_newline_position, tokens >>

Panic ==
    /\ outcome' = "panic"
    /\ UNCHANGED << source, pos, line, last_newline_position, tokens, error >>

\* '(' | ')' | '{' | '}' | ',' | '.' | '-' | '+' | ';' | '*'
ScanSingle ==
    /\ Scanning
    /\ c \in SingleChars
    /\ Emit(Tok(SingleCharToken(c)), 1)
    /\ UNCHANGED not_scanner_vars

\* ScanOperator leaving the '=' of a two-character operator unconsumed.
ScanOperatorKeepingEqual ==
    /\ Scanning
    /\ c \in OperatorChars
    /\ IF PeekChar = "="
       THEN Emit(Tok(TwoCharKind(c)), 1)
       ELSE Emit(Tok(OneCharKind(c)), 1)
    /\ UNCHANGED not_scanner_vars

\* '!' | '=' | '<' | '>': with a following '=' the two-character token.
ScanOperator ==
    /\ Scanning
    /\ c \in OperatorChars
    /\ IF PeekChar = "="
       THEN Emit(Tok(TwoCharKind(c)), 2)
       ELSE Emit(Tok(OneCharKind(c)), 1)
    /\ UNCHANGED not_scanner_vars

\* The newlines among the characters of s, which start at character index
\* `first`: how many, and the index just after the last one.
NewlineCount(s) == Cardinality({i \in 1..Len(s) : s[i] = NL})
LastNewlineEnd(s, first, old) ==
    IF \E i \in 1..Len(s) : s[i] = NL
    THEN first + (CHOOSE i \in 1..Len(s) :
                      s[i] = NL /\ \A j \in (i + 1)..Len(s) : s[j] # NL)
    ELSE old

\* '/' followed by '/': consume through the end of the line.
ScanLineComment ==
    /\ Scanning
    /\ c = "/"
    /\ PeekChar = "/"
    /\ LET p == Position(Lookahead, {NL})
       IN  IF p = -1
           THEN Skip(1 + Len(Lookahead), line, last_newline_position)
           ELSE Skip(1 + p + 1, line + 1, (index + 1 + p) + 1)
    /\ UNCHANGED not_scanner_vars

\* The loop of the block comment arm over the lookahead left after "/*":
\* the number of characters from the '*' of "/*" through the first "*/", or
\* -1 when no '*' is left to try.
RECURSIVE CommentLength(_, _)
CommentLength(rest, length) ==
    LET p == Position(rest, {"*"})
    IN  IF p = -1 THEN -1
        ELSE LET after == Drop(rest, p + 1)
             IN  IF after # << >> /\ Head(after) = "/"
                 THEN length + p + 1 + 1
                 ELSE CommentLength(after, length + p + 1)

\* '/' followed by '*': consume the comment, counting its newlines.
ScanBlockComment ==
    /\ Scanning
    /\ c = "/"
    /\ PeekChar = "*"
    /\ LET length == CommentLength(Tail(Lookahead), 1)
           body   == Take(Lookahead, length)
       IN  IF length = -1
           THEN ReturnErr("UnterminatedComment", line, column)
           ELSE Skip(1 + length,
                     line + NewlineCount(body),
                     LastNewlineEnd(body, index + 1, last_newline_position))
    /\ UNCHANGED not_scanner_vars

\* '/' followed by anything else
ScanSlash ==
    /\ Scanning
    /\ c = "/"
    /\ PeekChar \notin {"/", "*"}
    /\ Emit(Tok("Slash"), 1)
    /\ UNCHANGED not_scanner_vars

\* ' ' | '\r' | '\t'
ScanBlank ==
    /\ Scanning
    /\ c \in BlankChars
    /\ Skip(1, line, last_newline_position)
    /\ UNCHANGED not_scanner_vars

\* '\n'
ScanNewline ==
    /\ Scanning
    /\ c = NL
    /\ Skip(1, line + 1, index + 1)
    /\ UNCHANGED not_scanner_vars

\* The loop of the string arm.  `string` is the text sliced after the opening
\* quote, `rest` what the lookahead has left, `length` the characters passed
\* so far.  Each round finds the next '\n' or '"' and decides which of the
\* two it is with a byte slice of `string`.
RECURSIVE StringLoop(_, _, _, _, _)
StringLoop(string, rest, length, ln, lnp) ==
    LET p    == Position(rest, {NL, QUOTE})
        len1 == length + p + 1
        at   == ByteSlice(string, len1 - 1, len1)
    IN  IF p = -1
        THEN [status |-> "unterminated", length |-> length,
              line |-> ln, last_newline_position |-> lnp]
        ELSE IF ~at.ok
        THEN [status |-> "panic", length |-> len1,
              line |-> ln, last_newline_position |-> lnp]
        ELSE IF at.chars = << NL >>
        THEN StringLoop(string, Drop(rest, p + 1), len1, ln + 1, index + 1 + len1)
        ELSE [status |-> "closed", length |-> len1 - 1,
              line |-> ln, last_newline_position |-> lnp]

\* '"': a string literal, up to the next '"'.
ScanString ==
    /\ Scanning
    /\ c = QUOTE
    /\ LET string == ByteSlice(source, index + 1, ByteLen(source))
           loop   == StringLoop(string.chars, Lookahead, 0, line, last_newline_position)
           text   == ByteSlice(string.chars, 0, loop.length)
       IN  IF ~string.ok
           THEN Panic
           ELSE CASE loop.status = "unterminated" ->
                         ReturnErr("UnterminatedString", line, column)
                  [] loop.status = "panic" -> Panic
                  [] loop.status = "closed" ->
                         IF text.ok
                         THEN /\ tokens' = Append(tokens, TokText("String", text.chars))
                              /\ pos' = pos + 1 + (loop.length + 1)
                              /\ line' = loop.line
                              /\ last_newline_position' = loop.last_newline_position
                              /\ UNCHANGED << source, outcome, error >>
                         ELSE Panic
    /\ UNCHANGED not_scanner_vars

\* The characters the number arm counts: digits, then a '.' only when a
\* digit follows it, then that run of digits.
NumberLength(rest) ==
    LET digits == CountWhile(rest, Digits)
        after  == Drop(rest, digits)
    IN  IF Len(after) >= 2 /\ after[1] = "." /\ IsAsciiDigit(after[2])
        THEN 1 + digits + CountWhile(Drop(after, 1), Digits) + 1
        ELSE 1 + digits

\* '0'..='9': a number literal.
ScanNumber ==
    /\ Scanning
    /\ IsAsciiDigit(c)
    /\ LET number == ByteSlice(source, index, ByteLen(source))
           length == NumberLength(Lookahead)
           text   == ByteSlice(number.chars, 0, length)
           value  == ParseF32(text.chars)
       IN  IF number.ok /\ text.ok /\ value.ok
           THEN Emit(TokText("Number", value.chars), length)
           ELSE Panic
    /\ UNCHANGED not_scanner_vars

\* The characters the identifier arm counts.
SymbolLength(rest) == 1 + CountWhile(rest, {"_"} \cup Letters \cup Digits)

\* c == '_' || c.is_ascii_alphabetic(): a reserved word or an identifier.
ScanSymbol ==
    /\ Scanning
    /\ IsSymbolStart(c)
    /\ LET symbol == ByteSlice(source, index, ByteLen(source))
           length == SymbolLength(Lookahead)
           text   == ByteSlice(symbol.chars, 0, length)
       IN  IF symbol.ok /\ text.ok
           THEN IF KeywordOf(text.chars) = "Identifier"
                THEN Emit(TokText("Identifier", text.chars), length)
                ELSE Emit(Tok(KeywordOf(text.chars)), length)
           ELSE Panic
    /\ UNCHANGED not_scanner_vars

\* The characters no other arm takes.
IsInvalidChar(ch) ==
    /\ ch \notin SingleChars \cup OperatorChars \cup BlankChars
    /\ ch \notin {"/", NL, QUOTE}
    /\ ~IsAsciiDigit(ch)
    /\ ~IsSymbolStart(ch)

\* _ => return Err(LoxError::InvalidSyntax { .. })
ScanInvalid ==
    /\ Scanning
    /\ IsInvalidChar(c)
    /\ ReturnErr("InvalidSyntax", line, column)
    /\ UNCHANGED not_scanner_vars

\* source.next() is None: Ok(tokens)
ScanEnd ==
    /\ outcome = "scanning"
    /\ pos = Len(source)
    /\ outcome' = "ok"
    /\ UNCHANGED << source, pos, line, last_newline_position, tokens, error >>
    /\ UNCHANGED not_scanner_vars

ScannerNext ==
    \/ ScanSingle
    \/ ScanOperator
    \/ ScanLineComment
    \/ ScanBlockComment
    \/ ScanSlash
    \/ ScanBlank
    \/ ScanNewline
    \/ ScanString
    \/ ScanNumber
    \/ ScanSymbol
    \/ ScanInvalid
    \/ ScanEnd

(***************************************************************************)
(* Token: a kind, a span and the first bytes of the lexeme.  A lexeme is   *)
(* the sequence of the bytes of a str; a character of one byte stands for  *)
(* its byte.  Positions stay far below 2^32, where `as u32` changes        *)
(* nothing.                                                                *)
(***************************************************************************)
\* The bytes of EACUTE in UTF-8.
EACUTE_BYTE1 == "0xC3"
EACUTE_BYTE2 == "0xA9"
\* What [0; 7] fills the view with.
ZeroByte == "0x00"

\* view: [u8; 7]
ViewCapacity == 7

\* The bytes of the text after {view} in the Partial arm of Display.
TruncationMarker == << "0xC3", "0xA2", "0xE2", "0x82", "0xAC", "0xC2", "0xA6" >>

\* min(a, b)
Min(a, b) == IF a <= b THEN a ELSE b

NoToken == [kind |-> "None", span |-> [start |-> 0, end |-> 0], view |-> << >>]

\* TokenNew copying one byte fewer than the view holds.
TokenNewShortView(kind, position, lexeme) ==
    LET len == Len(lexeme)
        view_len == Min(len, ViewCapacity - 1)
    IN  [kind |-> kind,
         span |-> [start |-> position, end |-> position + len],
         view |-> [i \in 1..ViewCapacity |->
                       IF i <= view_len THEN lexeme[i] ELSE ZeroByte]]

\* Token::new(kind, pos, lexeme)
TokenNew(kind, position, lexeme) ==
    LET len == Len(lexeme)
        view_len == Min(len, ViewCapacity)
    IN  [kind |-> kind,
         span |-> [start |-> position, end |-> position + len],
         view |-> [i \in 1..ViewCapacity |->
                       IF i <= view_len THEN lexeme[i] ELSE ZeroByte]]

\* Token::view: whether the view is the whole lexeme, and its bytes.
TokenView(token) ==
    LET len == token.span.end - token.span.start
        view_len == Min(len, ViewCapacity)
    IN  [complete |-> len <= ViewCapacity, text |-> SubSeq(token.view, 1, view_len)]

\* impl fmt::Display for Token: the bytes written.  When the cut of a
\* Partial view falls inside a character, write_str still copies the bytes.
TokenDisplay(token) ==
    LET view == TokenView(token)
    IN  IF view.complete THEN view.text ELSE view.text \o TruncationMarker

\* Token equality comparing the kind and the span only.
TokenEqIgnoringView(a, b) == a.kind = b.kind /\ a.span = b.span

\* #[derive(PartialEq)] on Token: every field is compared, the view too.
\* Span is compared field by field.
TokenEq(a, b) == a.kind = b.kind /\ a.span = b.span /\ a.view = b.view

\* Two calls of Token::new
BuildTokens ==
    /\ token_state = "args"
    /\ token_a' = TokenNew(token_a_args.kind, token_a_args.pos, token_a_args.lexeme)
    /\ token_b' = TokenNew(token_b_args.kind, token_b_args.pos, token_b_args.lexeme)
    /\ token_state' = "built"
    /\ UNCHANGED << token_a_args, token_b_args, tokens_equal >>
    /\ UNCHANGED not_token_vars

\* token_a == token_b
CompareTokens ==
    /\ token_state = "built"
    /\ tokens_equal' = TokenEq(token_a, token_b)
    /\ token_state' = "compared"
    /\ UNCHANGED << token_a_args, token_b_args, token_a, token_b >>
    /\ UNCHANGED not_token_vars

TokenNext == BuildTokens \/ CompareTokens

(***************************************************************************)
(* Parser: recursive descent over the kinds of a token slice.  A position  *)
(* is the 1-based index of the token self.tokens.next() would yield; a     *)
(* tree refers to its tokens by their index in the slice, as Expr<'tok>    *)
(* borrows them.  Every function returns a Result: ok with the tree and    *)
(* the position reached, or the error (no tree) and the position reached.  *)
(***************************************************************************)
NoExpr == [node |-> "None"]

Binary(left, operator, right) ==
    [node |-> "Binary", left |-> left, operator |-> operator, right |-> right]
Grouping(expression) == [node |-> "Grouping", expression |-> expression]
Literal(value) == [node |-> "Literal", value |-> value]
Unary(operator, right) == [node |-> "Unary", operator |-> operator, right |-> right]

\* source_line: "FIXME".to_string()
FIXME == << "F", "I", "X", "M", "E" >>

\* Error::kind { source_line: "FIXME".to_string(), line_number: 1,
\* column_number: 1 }, what every error of Parser::primary is built as.
ParserError(kind) ==
    [kind |-> kind, source_line |-> FIXME, line_number |-> 1, column_number |-> 1]

Ok(expr, next) ==
    [ok |-> TRUE, expr |-> expr, next |-> next, err |-> "None", error |-> NoError]
Err(kind, next) ==
    [ok |-> FALSE, expr |-> NoExpr, next |-> next, err |-> kind,
     error |-> ParserError(kind)]

\* self.tokens.peek().map(|tok| tok.kind()), "None" at the end of the slice
PeekKind(toks, i) == IF i <= Len(toks) THEN toks[i] ELSE "None"

\* TokenKind::BangEqual | TokenKind::EqualEqual
IsEqualityOp(kind) == kind \in {"BangEqual", "EqualEqual"}
\* TokenKind::Greater | GreaterEqual | Less | LessEqual
IsComparisonOp(kind) == kind \in {"Greater", "GreaterEqual", "Less", "LessEqual"}
\* TokenKind::Minus | TokenKind::Plus
IsTermOp(kind) == kind \in {"Minus", "Plus"}
\* IsFactorOp with the operators of term let in.
IsFactorOpWithTermOps(kind) == kind \in {"Slash", "Star", "Minus", "Plus"}

\* TokenKind::Slash | TokenKind::Star
IsFactorOp(kind) == kind \in {"Slash", "Star"}
\* TokenKind::Bang | TokenKind::Minus
IsUnaryOp(kind) == kind \in {"Bang", "Minus"}
\* Keyword(True) | Keyword(False) | Keyword(Nil) | Number | String
IsLiteralKind(kind) ==
    kind \in {"Keyword(True)", "Keyword(False)", "Keyword(Nil)", "Number", "String"}

RECURSIVE Expression(_, _)
RECURSIVE Equality(_, _)
RECURSIVE EqualityLoop(_, _, _)
RECURSIVE Comparison(_, _)
RECURSIVE ComparisonLoop(_, _, _)
RECURSIVE Term(_, _)
RECURSIVE TermLoop(_, _, _)
RECURSIVE Factor(_, _)
RECURSIVE FactorLoop(_, _, _)
RECURSIVE UnaryExpr(_, _)
RECURSIVE Primary(_, _)

\* The error Parser::primary returns when `(` expression is not followed by
\* `)`: the token after the expression, if any, has been consumed.
UnclosedParenthesis(toks, i) ==
    Err("UnclosedParenthesis", IF i <= Len(toks) THEN i + 1 ELSE i)

\* Primary accepting a group whose `)` is missing.
PrimaryWithoutClosingCheck(toks, i) ==
    LET kind == PeekKind(toks, i)
    IN  CASE IsLiteralKind(kind) -> Ok(Literal(i), i + 1)
          [] kind = "LeftParen" ->
                 LET inner == Expression(toks, i + 1)
                 IN  IF ~inner.ok THEN inner
                     ELSE IF PeekKind(toks, inner.next) = "RightParen"
                     THEN Ok(Grouping(inner.expr), inner.next + 1)
                     ELSE Ok(Grouping(inner.expr), inner.next)
          [] kind = "UnterminatedString" -> Err("UnterminatedString", i)
          [] kind = "UnterminatedBlockComment" -> Err("UnterminatedBlockComment", i)
          [] OTHER -> Err("ParseError", i)

\* Primary taking a lexical-error token for a literal.
PrimaryAcceptingErrorTokens(toks, i) ==
    LET kind == PeekKind(toks, i)
    IN  CASE IsLiteralKind(kind) -> Ok(Literal(i), i + 1)
          [] kind = "LeftParen" ->
                 LET inner == Expression(toks, i + 1)
                 IN  IF ~inner.ok THEN inner
                     ELSE IF PeekKind(toks, inner.next) = "RightParen"
                     THEN Ok(Grouping(inner.expr), inner.next + 1)
                     ELSE UnclosedParenthesis(toks, inner.next)
          [] kind \in {"UnterminatedString", "UnterminatedBlockComment", "InvalidCharacter"} ->
                 Ok(Literal(i), i + 1)
          [] OTHER -> Err("ParseError", i)

\* primary -> NUMBER | STRING | "true" | "false" | "nil" | "(" expression ")"
Primary(toks, i) ==
    LET kind == PeekKind(toks, i)
    IN  CASE IsLiteralKind(kind) -> Ok(Literal(i), i + 1)
          [] kind = "LeftParen" ->
                 LET inner == Expression(toks, i + 1)
                 IN  IF ~inner.ok THEN inner
                     ELSE IF PeekKind(toks, inner.next) = "RightParen"
                     THEN Ok(Grouping(inner.expr), inner.next + 1)
                     ELSE UnclosedParenthesis(toks, inner.next)
          [] kind = "UnterminatedString" -> Err("UnterminatedString", i)
          [] kind = "UnterminatedBlockComment" -> Err("UnterminatedBlockComment", i)
          [] OTHER -> Err("ParseError", i)

\* UnaryExpr consuming the operator and returning its operand alone.
UnaryExprDroppingOperator(toks, i) ==
    IF IsUnaryOp(PeekKind(toks, i))
    THEN LET right == UnaryExpr(toks, i + 1)
         IN  IF ~right.ok THEN right ELSE Ok(right.expr, right.next)
    ELSE Primary(toks, i)

\* unary -> ( "!" | "-" ) unary | primary
UnaryExpr(toks, i) ==
    IF IsUnaryOp(PeekKind(toks, i))
    THEN LET right == UnaryExpr(toks, i + 1)
         IN  IF ~right.ok THEN right ELSE Ok(Unary(i, right.expr), right.next)
    ELSE Primary(toks, i)

\* The while loop of factor, entered with the tree so far.
FactorLoop(toks, expr, i) ==
    IF IsFactorOp(PeekKind(toks, i))
    THEN LET right == UnaryExpr(toks, i + 1)
         IN  IF ~right.ok THEN right
             ELSE FactorLoop(toks, Binary(expr, i, right.expr), right.next)
    ELSE Ok(expr, i)

\* factor -> unary ( ( "/" | "*" ) unary )*
Factor(toks, i) ==
    LET first == UnaryExpr(toks, i)
    IN  IF ~first.ok THEN first ELSE FactorLoop(toks, first.expr, first.next)

\* TermLoop folding to the right: the right operand is a whole term.
TermLoopRightAssociative(toks, expr, i) ==
    IF IsTermOp(PeekKind(toks, i))
    THEN LET right == Term(toks, i + 1)
         IN  IF ~right.ok THEN right
             ELSE Ok(Binary(expr, i, right.expr), right.next)
    ELSE Ok(expr, i)

\* The while loop of term.
TermLoop(toks, expr, i) ==
    IF IsTermOp(PeekKind(toks, i))
    THEN LET right == Factor(toks, i + 1)
         IN  IF ~right.ok THEN right
             ELSE TermLoop(toks, Binary(expr, i, right.expr), right.next)
    ELSE Ok(expr, i)

\* term -> factor ( ( "-" | "+" ) factor )*
Term(toks, i) ==
    LET first == Factor(toks, i)
    IN  IF ~first.ok THEN first ELSE TermLoop(toks, first.expr, first.next)

\* The while loop of comparison.
ComparisonLoop(toks, expr, i) ==
    IF IsComparisonOp(PeekKind(toks, i))
    THEN LET right == Term(toks, i + 1)
         IN  IF ~right.ok THEN right
             ELSE ComparisonLoop(toks, Binary(expr, i, right.expr), right.next)
    ELSE Ok(expr, i)

\* comparison -> term ( ( ">" | ">=" | "<" | "<=" ) term )*
Comparison(toks, i) ==
    LET first == Term(toks, i)
    IN  IF ~first.ok THEN first ELSE ComparisonLoop(toks, first.expr, first.next)

\* The while loop of equality.
EqualityLoop(toks, expr, i) ==
    IF IsEqualityOp(PeekKind(toks, i))
    THEN LET right == Comparison(toks, i + 1)
         IN  IF ~right.ok THEN right
             ELSE EqualityLoop(toks, Binary(expr, i, right.expr), right.next)
    ELSE Ok(expr, i)

\* equality -> comparison ( ( "!=" | "==" ) comparison )*
Equality(toks, i) ==
    LET first == Comparison(toks, i)
    IN  IF ~first.ok THEN first ELSE EqualityLoop(toks, first.expr, first.next)

\* expression -> equality
Expression(toks, i) == Equality(toks, i)

NotParsed ==
    [ok |-> FALSE, expr |-> NoExpr, next |-> 0, err |-> "None", error |-> NoError]

\* Parse reporting the tokens left after the expression as an error.
ParseRejectingTrailingTokens ==
    /\ parser_state = "ready"
    /\ parsed' = LET result == Expression(parser_tokens, 1)
                 IN  IF result.ok /\ result.next <= Len(parser_tokens)
                     THEN Err("ParseError", result.next)
                     ELSE result
    /\ parser_state' = "done"
    /\ UNCHANGED << parser_tokens, parser_lexemes, displayed >>
    /\ UNCHANGED not_parser_vars

\* Parser::parse on a parser fresh from Parser::new
Parse ==
    /\ parser_state = "ready"
    /\ parsed' = Expression(parser_tokens, 1)
    /\ parser_state' = "done"
    /\ UNCHANGED << parser_tokens, parser_lexemes, displayed >>
    /\ UNCHANGED not_parser_vars

\* The byte at which the i-th token starts in the one-line source that
\* holds the lexemes in order, a single space between two of them.
RECURSIVE TokenStart(_, _)
TokenStart(lexemes, i) ==
    IF i <= 1 THEN 0 ELSE TokenStart(lexemes, i - 1) + Len(lexemes[i - 1]) + 1

\* The Token values of the slice: Token::new on each kind and lexeme.
ParserTokenAt(i) ==
    TokenNew(parser_tokens[i], TokenStart(parser_lexemes, i), parser_lexemes[i])

\* The bytes of a str literal of one-byte characters.
SPACE == " "
GROUP == << "g", "r", "o", "u", "p" >>

\* impl fmt::Display for Expr: the bytes written for a tree over the
\* tokens of the slice.
RECURSIVE ExprDisplay(_)
ExprDisplay(e) ==
    CASE e.node = "Binary" ->
             << "(" >> \o TokenDisplay(ParserTokenAt(e.operator)) \o << SPACE >>
                 \o ExprDisplay(e.left) \o << SPACE >> \o ExprDisplay(e.right) \o << ")" >>
      [] e.node = "Grouping" ->
             << "(" >> \o GROUP \o << SPACE >> \o ExprDisplay(e.expression) \o << ")" >>
      [] e.node = "Literal" -> TokenDisplay(ParserTokenAt(e.value))
      [] e.node = "Unary" ->
             << "(" >> \o TokenDisplay(ParserTokenAt(e.operator)) \o << SPACE >>
                 \o ExprDisplay(e.right) \o << ")" >>

\* println!("{}", ast) in run, after parse() returned Ok(ast)
Show ==
    /\ parser_state = "done"
    /\ parsed.ok
    /\ displayed' = ExprDisplay(parsed.expr)
    /\ parser_state' = "shown"
    /\ UNCHANGED << parser_tokens, parser_lexemes, parsed >>
    /\ UNCHANGED not_parser_vars

(***************************************************************************)
(* PeekableLineColIterator over an iterator of characters.  The wrapped    *)
(* iterator is the sequence of the characters it still holds; asked for a  *)
(* character when it holds none, it returns None, written NoChar.          *)
(***************************************************************************)
NoChar == ""

\* self.iter.next(): the Option returned and the iterator left.
IterNext(iter) ==
    IF iter = << >>
    THEN [item |-> NoChar, iter |-> << >>]
    ELSE [item |-> Head(iter), iter |-> Tail(iter)]

\* PeekableLineColIterator::line, column and offset
TrackerLine == tracker_line
TrackerColumn == tracker_column
TrackerOffset == tracker_start_of_line + tracker_column

\* TrackerPeek leaving the peeked field empty: the character taken from the
\* wrapped iterator is returned and forgotten.
TrackerPeekForgetting ==
    /\ tracker_call.op # "none"
    /\ LET taken == IF tracker_peeked = NoChar
                    THEN IterNext(tracker_iter)
                    ELSE [item |-> tracker_peeked, iter |-> tracker_iter]
       IN  /\ tracker_peeked' = NoChar
           /\ tracker_iter' = taken.iter
           /\ tracker_call' = [op |-> "peek", returned |-> taken.item]
    /\ UNCHANGED << tracker_chars, tracker_line, tracker_column,
                    tracker_start_of_line, tracker_returned >>
    /\ UNCHANGED not_tracker_vars

\* PeekableLineColIterator::peek
TrackerPeek ==
    /\ tracker_call.op # "none"
    /\ LET taken == IF tracker_peeked = NoChar
                    THEN IterNext(tracker_iter)
                    ELSE [item |-> tracker_peeked, iter |-> tracker_iter]
       IN  /\ tracker_peeked' = taken.item
           /\ tracker_iter' = taken.iter
           /\ tracker_call' = [op |-> "peek", returned |-> taken.item]
    /\ UNCHANGED << tracker_chars, tracker_line, tracker_column,
                    tracker_start_of_line, tracker_returned >>
    /\ UNCHANGED not_tracker_vars

\* TrackerNext moving start_of_line by the column alone at a newline.
TrackerNextWithoutNewlineWidth ==
    /\ tracker_call.op # "none"
    /\ LET taken == IF tracker_peeked # NoChar
                    THEN [item |-> tracker_peeked, iter |-> tracker_iter]
                    ELSE IterNext(tracker_iter)
       IN  /\ tracker_peeked' = NoChar
           /\ tracker_iter' = taken.iter
           /\ tracker_call' = [op |-> "next", returned |-> taken.item]
           /\ CASE taken.item = NoChar ->
                       UNCHANGED << tracker_line, tracker_column,
                                    tracker_start_of_line, tracker_returned >>
                [] taken.item = NL ->
                       /\ tracker_start_of_line' = tracker_start_of_line + tracker_column
                       /\ tracker_line' = tracker_line + 1
                       /\ tracker_column' = 0
                       /\ tracker_returned' = Append(tracker_returned, NL)
                [] OTHER ->
                       /\ tracker_column' = tracker_column + 1
                       /\ tracker_returned' = Append(tracker_returned, taken.item)
                       /\ UNCHANGED << tracker_line, tracker_start_of_line >>
    /\ UNCHANGED tracker_chars
    /\ UNCHANGED not_tracker_vars

\* Iterator::next for PeekableLineColIterator:
\* self.peeked.take().or_else(|| self.iter.next())?, then the match.
TrackerNext ==
    /\ tracker_call.op # "none"
    /\ LET taken == IF tracker_peeked # NoChar
                    THEN [item |-> tracker_peeked, iter |-> tracker_iter]
                    ELSE IterNext(tracker_iter)
       IN  /\ tracker_peeked' = NoChar
           /\ tracker_iter' = taken.iter
           /\ tracker_call' = [op |-> "next", returned |-> taken.item]
           /\ CASE taken.item = NoChar ->
                       UNCHANGED << tracker_line, tracker_column,
                                    tracker_start_of_line, tracker_returned >>
                [] taken.item = NL ->
                       /\ tracker_start_of_line' = tracker_start_of_line + tracker_column + 1
                       /\ tracker_line' = tracker_line + 1
                       /\ tracker_column' = 0
                       /\ tracker_returned' = Append(tracker_returned, NL)
                [] OTHER ->
                       /\ tracker_column' = tracker_column + 1
                       /\ tracker_returned' = Append(tracker_returned, taken.item)
                       /\ UNCHANGED << tracker_line, tracker_start_of_line >>
    /\ UNCHANGED tracker_chars
    /\ UNCHANGED not_tracker_vars

TrackerStep == TrackerPeek \/ TrackerNext

(***************************************************************************)
(* Error and LoxError: the text their Display writes, as thiserror builds  *)
(* it from the #[error(...)] format of each variant.                       *)
(***************************************************************************)
\* The text before ", line" in the format of each variant.
ErrorName(kind) ==
    CASE kind = "InvalidCharacter" -> << "i", "n", "v", "a", "l", "i", "d", " ", "c", "h", "a", "r", "a", "c", "t", "e", "r" >>
      [] kind = "UnterminatedString" -> << "u", "n", "t", "e", "r", "m", "i", "n", "a", "t", "e", "d", " ", "s", "t", "r", "i", "n", "g" >>
      [] kind = "UnterminatedComment" -> << "u", "n", "t", "e", "r", "m", "i", "n", "a", "t", "e", "d", " ", "c", "o", "m", "m", "e", "n", "t" >>
      [] kind = "ParseError" -> << "p", "a", "r", "s", "e", " ", "e", "r", "r", "o", "r" >>
      [] kind = "InvalidSyntax" -> << "i", "n", "v", "a", "l", "i", "d", " ", "s", "y", "n", "t", "a", "x" >>

\* The decimal digits a usize is formatted as by {}.
DigitChar(d) == << "0", "1", "2", "3", "4", "5", "6", "7", "8", "9" >>[d + 1]
RECURSIVE Decimal(_)
Decimal(n) == IF n < 10 THEN << DigitChar(n) >> ELSE Decimal(n \div 10) \o << DigitChar(n % 10) >>

\* {:fill>width$}: the text right-aligned in `width` characters, the room on
\* its left filled; a text at least that long is written as it is.
PadLeft(text, fill, width) ==
    IF width <= Len(text) THEN text
    ELSE [i \in 1..(width - Len(text)) |-> fill] \o text

\* MarkerLine padding to one character more than the column.
MarkerLineOneWider(column_number) == PadLeft(<< "^" >>, "-", column_number + 1)

\* {:->column_number$} given "^"
MarkerLine(column_number) == PadLeft(<< "^" >>, "-", column_number)

\* "<name>, line {line_number}\n{source_line}\n{:->column_number$}", "^"
ErrorDisplay(e) ==
    ErrorName(e.kind) \o << ",", " ", "l", "i", "n", "e", " " >> \o Decimal(e.line_number)
        \o << NL >> \o e.source_line
        \o << NL >> \o MarkerLine(e.column_number)

\* format!("{e}")
RenderError ==
    /\ shown_error.kind # "None"
    /\ diagnostic = << >>
    /\ diagnostic' = ErrorDisplay(shown_error)
    /\ UNCHANGED shown_error
    /\ UNCHANGED not_error_vars

ErrorNext == RenderError

(***************************************************************************)
(* The sources scanned: the sources of the scanner's own tests, and every  *)
(* text up to a bounded length over each of a few small alphabets, one per *)
(* part of the scanner.                                                    *)
(***************************************************************************)
\* tests::single_and_double_lexemes
Src_single_and_double_lexemes ==
    << "!", "=", "<", "=", ">", "=", "=", "=", "(", "{", ",", ".", "-",
       "=", ";", "*", "}", ")" >>

\* tests::ignore_comment_line
Src_ignore_comment_line ==
    << "/", "/", " ", "t", "h", "i", "s", " ", "i", "s", " ", "a", " ",
       "c", "o", "m", "m", "e", "n", "t", " ", "l", "i", "n", "e" >>

\* tests::ignore_comment_eol
Src_ignore_comment_eol ==
    << "(", "1", " ", "=", "=", " ", "1", ".", "0", ")", " ", "/", "/",
       " ", "t", "h", "i", "s", " ", "i", "s", " ", "a", "n", " ", "e",
       "n", "d", "-", "o", "f", "-", "l", "i", "n", "e", " ", "c", "o",
       "m", "m", "e", "n", "t" >>

\* tests::ignore_c_style_comments
Src_ignore_c_style_comments ==
    << "(", "/", "*", " ", "t", "h", "i", "s", " ", "*", "s", "h", "o",
       "u", "l", "d", "*", " ", "b", "e", " ", "i", "g", "n", "o", "r",
       "e", "d", " ", "*", "/", ")" >>

\* tests::line_counting_multiline_comments
Src_line_counting_multiline_comments ==
    << "v", "a", "r", " ", "t", "1", ";", " ", "/", "*", " ", "t", "h",
       "i", "s", NL, "s", "h", "o", "u", "l", "d", " ", "b", "e", NL, "i",
       "g", "n", "o", "r", "e", "d", " ", "*", "/", " ", "v", "a", "r",
       " ", "t", "2", ";", "@" >>

\* tests::line_counting_multiline_string
Src_line_counting_multiline_string ==
    << "v", "a", "r", " ", "t", "1", " ", "=", " ", QUOTE, "t", "h", "i",
       "s", " ", "i", "s", " ", "a", NL, "m", "u", "l", "t", "i", " ", "l",
       "i", "n", "e", NL, "s", "t", "r", "i", "n", "g", QUOTE, ";", " ",
       "v", "a", "r", " ", "t", "2", ";", "@" >>

\* tests::string_literals
Src_string_literals ==
    << QUOTE, "s", "t", "r", "i", "n", "g", " ", "(", "1", "2", "3", ")",
       " ", "/", "/", " ", "c", "h", "e", "c", "k", QUOTE >>

\* tests::number_literals_valid
Src_number_literals_valid ==
    << "1", " ", "2", ".", "0", " ", "0", ".", "3", " ", "0", "0", "0",
       ".", "3", " ", "0", ".", "0", "0", "0", "3", " ", "1", "2", "3",
       " ", "1", "2", "3", ".", "1", "2", "3" >>

\* tests::number_literals_invalid
Src_number_literals_invalid ==
    << ".", "1", "2", "3", " ", "1", "2", "3", ".", " ", "-", "1", "2", "3" >>

\* tests::reserved_keywords
Src_reserved_keywords ==
    << "a", "n", "d", " ", "c", "l", "a", "s", "s", " ", "e", "l", "s",
       "e", " ", "f", "a", "l", "s", "e", " ", "f", "u", "n", " ", "f",
       "o", "r", " ", "i", "f", " ", "n", "i", "l", " ", "o", "r", " ",
       "p", "r", "i", "n", "t", " ", "r", "e", "t", "u", "r", "n", " ",
       "s", "u", "p", "e", "r", " ", "t", "h", "i", "s", " ", "t", "r",
       "u", "e", " ", "v", "a", "r", " ", "w", "h", "i", "l", "e" >>

\* tests::identifiers
Src_identifiers ==
    << "_", " ", "_", "t", "e", "s", "t", " ", "t", "e", "s", "t", "_",
       "T", "1", " ", "t", "e", "s", "t", " ", "t", "e", "s", "t", "_",
       "T", "E", "S", "T", " ", "a", "1", " ", "_", "4", "2" >>

\* tests::maximal_munch
Src_maximal_munch ==
    << "a", "n", "d", "o", "r", " ", "a", "n", "d", " ", "o", "r", " ",
       "_", "a", "n", "d", " ", "o", "r", "_", " ", "O", "r" >>

TestSources ==
    {Src_single_and_double_lexemes,
     Src_ignore_comment_line,
     Src_ignore_comment_eol,
     Src_ignore_c_style_comments,
     Src_line_counting_multiline_comments,
     Src_line_counting_multiline_string,
     Src_string_literals,
     Src_number_literals_valid,
     Src_number_literals_invalid,
     Src_reserved_keywords,
     Src_identifiers,
     Src_maximal_munch}

\* Sources named in the description of the scanner.
\* /* a /* b */ c */
NestedCommentExample == << "/", "*", " ", "a", " ", "/", "*", " ", "b", " ", "*", "/", " ", "c", " ", "*", "/" >>
\* "a\"b"
EscapedQuoteExample == << QUOTE, "a", BACKSLASH, QUOTE, "b", QUOTE >>
\* ok\nbad@
LineColumnExample == << "o", "k", NL, "b", "a", "d", "@" >>
\* !=<=>===
OperatorsExample == << "!", "=", "<", "=", ">", "=", "=", "=" >>
\* 1.2.3
NumbersExample == << "1", ".", "2", ".", "3" >>
\* @\n*
SkippedLineExample == << "@", NL, "*" >>

ExampleSources ==
    {NestedCommentExample, EscapedQuoteExample, LineColumnExample, OperatorsExample, NumbersExample,
     SkippedLineExample}

\* Every sequence over the alphabet of length at most n.
Strings(alphabet, n) == UNION {[1..k -> alphabet] : k \in 0..n}

MaxOperatorLen == 5
OperatorAlphabet == {"!", "=", "<", ">"}

MaxNumberLen == 5
NumberAlphabet == {"1", "2", ".", "-"}

MaxSymbolLen == 4
SymbolAlphabet == {"o", "r", "_", "O", "1", " "}

MaxCommentLen == 8
CommentAlphabet == {"/", "*", "a"}

MaxStringLen == 6
StringAlphabet == {QUOTE, BACKSLASH, "a"}

MaxLineLen == 5
LineAlphabet == {"@", NL, "/", "*", QUOTE}

\* A line comment holding a character of two bytes, and its newline.
WideCommentLine == << "/", "/", EACUTE, NL >>

MaxWideLen == 4
WideAlphabet == {QUOTE, NL, "@", "o", "r", "1", EACUTE}

MaxBlankLen == 5
BlankAlphabet == {" ", TAB, CR, NL, "/", "*"}

Sources ==
    TestSources
        \cup ExampleSources
        \cup Strings(OperatorAlphabet, MaxOperatorLen)
        \cup Strings(NumberAlphabet, MaxNumberLen)
        \cup Strings(SymbolAlphabet, MaxSymbolLen)
        \cup Strings(CommentAlphabet, MaxCommentLen)
        \cup Strings(StringAlphabet, MaxStringLen)
        \cup Strings(LineAlphabet, MaxLineLen)
        \cup {WideCommentLine \o t : t \in Strings(WideAlphabet, MaxWideLen)}
        \cup Strings(BlankAlphabet, MaxBlankLen)

\* The token slices of tests::primaries, as the scanner of that test is
\* expected to produce them: true, false, nil, 123, "hello", (1 + 2.0).
TestSlices ==
    {<< "Keyword(True)" >>, << "Keyword(False)" >>, << "Keyword(Nil)" >>,
     << "Number" >>, << "String" >>,
     << "LeftParen", "Number", "Plus", "Number", "RightParen" >>}

\* One slice through every operator of the grammar:
\* 1 != 2 == 3 > 4 >= 5 < 6 <= 7 - 8 + 9 / 1 * !2
AllOperatorsSlice ==
    << "Number", "BangEqual", "Number", "EqualEqual", "Number", "Greater",
       "Number", "GreaterEqual", "Number", "Less", "Number", "LessEqual",
       "Number", "Minus", "Number", "Plus", "Number", "Slash", "Number",
       "Star", "Bang", "Number" >>

\* The token slices parsed: the ones above, and every sequence up to a
\* bounded length over the kinds of an operator of each level, and over the
\* kinds of parenthesised arithmetic.
MaxOperatorTokens == 5
OperatorKinds == {"Number", "EqualEqual", "Less", "Plus", "Star", "Minus", "Bang"}

MaxGroupingTokens == 5
GroupingKinds == {"Number", "Plus", "Star", "Minus", "LeftParen", "RightParen"}

TokenSlices ==
    TestSlices
        \cup {AllOperatorsSlice}
        \cup Strings(OperatorKinds, MaxOperatorTokens)
        \cup Strings(GroupingKinds, MaxGroupingTokens)

\* The lexeme each kind is given where the text does not matter.
DefaultLexeme(kind) ==
    CASE kind = "Number" -> << "1" >>
      [] kind = "String" -> << QUOTE, "a", QUOTE >>
      [] kind = "Keyword(True)" -> << "t", "r", "u", "e" >>
      [] kind = "Keyword(False)" -> << "f", "a", "l", "s", "e" >>
      [] kind = "Keyword(Nil)" -> << "n", "i", "l" >>
      [] kind = "LeftParen" -> << "(" >>
      [] kind = "RightParen" -> << ")" >>
      [] kind = "Plus" -> << "+" >>
      [] kind = "Minus" -> << "-" >>
      [] kind = "Star" -> << "*" >>
      [] kind = "Slash" -> << "/" >>
      [] kind = "Bang" -> << "!" >>
      [] kind = "BangEqual" -> << "!", "=" >>
      [] kind = "EqualEqual" -> << "=", "=" >>
      [] kind = "Greater" -> << ">" >>
      [] kind = "GreaterEqual" -> << ">", "=" >>
      [] kind = "Less" -> << "<" >>
      [] kind = "LessEqual" -> << "<", "=" >>
      [] kind = "InvalidCharacter" -> << "@" >>
      [] kind = "UnterminatedString" -> << QUOTE, "a" >>
      [] kind = "UnterminatedBlockComment" -> << "/", "*" >>

DefaultLexemes(kinds) == [i \in 1..Len(kinds) |-> DefaultLexeme(kinds[i])]

\* Slices with a lexical-error token at every place of an expression.
MaxErrorTokens == 4
ErrorFamilyKinds == {"Number", "Plus", "LeftParen", "RightParen", "InvalidCharacter",
                     "UnterminatedString", "UnterminatedBlockComment"}

KindSlices == TokenSlices \cup Strings(ErrorFamilyKinds, MaxErrorTokens)

\* Lexemes on both sides of the capacity of the view: 1, 2.0, 1234567,
\* 12345678, "hello", "hello!", and "hello\u{e9}" whose seventh byte is the
\* first of the two bytes of the last character.
DisplayLexemes(kind) ==
    CASE kind = "Number" ->
             {<< "1" >>, << "2", ".", "0" >>,
              << "1", "2", "3", "4", "5", "6", "7" >>,
              << "1", "2", "3", "4", "5", "6", "7", "8" >>}
      [] kind = "String" ->
             {<< QUOTE, "h", "e", "l", "l", "o", QUOTE >>,
              << QUOTE, "h", "e", "l", "l", "o", "!", QUOTE >>,
              << QUOTE, "h", "e", "l", "l", "o", EACUTE_BYTE1, EACUTE_BYTE2, QUOTE >>}
      [] OTHER -> {DefaultLexeme(kind)}

MaxDisplayTokens == 3
DisplayKinds == {"Number", "String", "Minus", "Star", "LeftParen", "RightParen"}
DisplayTokens ==
    UNION {{[kind |-> k, lexeme |-> l] : l \in DisplayLexemes(k)} : k \in DisplayKinds}

\* (1 + 2.0), the expression tests::primaries parses last.
GroupExample ==
    [kinds |-> << "LeftParen", "Number", "Plus", "Number", "RightParen" >>,
     lexemes |-> << << "(" >>, << "1" >>, << "+" >>, << "2", ".", "0" >>, << ")" >> >>]

\* The arguments of Token::new: lexemes of a few bytes, and lexemes around
\* the capacity of the view that differ in its last byte or past it.
MaxTokenPos == 1
MaxShortLexeme == 2
MaxLexemeTail == 2
LexemeAlphabet == {"1", "2"}
TokenLexemes ==
    Strings(LexemeAlphabet, MaxShortLexeme)
        \cup {[i \in 1..(ViewCapacity - 1) |-> "1"] \o t :
                 t \in Strings(LexemeAlphabet, MaxLexemeTail)}
TokenArgs == [kind : {"Number", "String"}, pos : 0..MaxTokenPos, lexeme : TokenLexemes]

\* The characters the tracker is made over.
MaxTrackerLen == 4
TrackerAlphabet == {"a", NL, EACUTE}

\* The error values displayed.
MaxLineNumber == 11
MaxColumnNumber == 8
ErrorKinds == {"InvalidCharacter", "UnterminatedString", "UnterminatedComment",
               "ParseError", "InvalidSyntax"}
\* class @bad, the line of the tests of Display
ClassBadLine == << "c", "l", "a", "s", "s", " ", "@", "b", "a", "d" >>
ErrorLines == {ClassBadLine, << >>, << EACUTE, "@" >>}
ErrorValues ==
    [kind : ErrorKinds, source_line : ErrorLines,
     line_number : 1..MaxLineNumber, column_number : 0..MaxColumnNumber]

\* No scanner, no parser, no tokens compared, no tracker, no error shown.
ScannerIdle ==
    /\ source = << >>
    /\ pos = 0
    /\ line = 0
    /\ last_newline_position = 0
    /\ tokens = << >>
    /\ outcome = "idle"
    /\ error = NoError

ParserIdle ==
    /\ parser_tokens = << >>
    /\ parser_lexemes = << >>
    /\ parser_state = "idle"
    /\ parsed = NotParsed
    /\ displayed = << >>

NoArgs == [kind |-> "None", pos |-> 0, lexeme |-> << >>]

TokenIdle ==
    /\ token_a_args = NoArgs
    /\ token_b_args = NoArgs
    /\ token_a = NoToken
    /\ token_b = NoToken
    /\ token_state = "idle"
    /\ tokens_equal = FALSE

NoCall == [op |-> "none", returned |-> NoChar]

TrackerIdle ==
    /\ tracker_chars = << >>
    /\ tracker_iter = << >>
    /\ tracker_line = 0
    /\ tracker_column = 0
    /\ tracker_start_of_line = 0
    /\ tracker_peeked = NoChar
    /\ tracker_returned = << >>
    /\ tracker_call = NoCall

ErrorIdle ==
    /\ shown_error = NoError
    /\ diagnostic = << >>

\* Scanner::new(source), then the first lines of tokens()
ScannerInit ==
    /\ source \in Sources
    /\ pos = 0
    /\ line = 0
    /\ last_newline_position = 0
    /\ tokens = << >>
    /\ outcome = "scanning"
    /\ error = NoError
    /\ ParserIdle /\ TokenIdle /\ TrackerIdle /\ ErrorIdle

\* Parser::new(tokens): the kinds and the lexemes of the tokens of the slice.
ParserInit ==
    /\ \/ \E kinds \in KindSlices :
              /\ parser_tokens = kinds
              /\ parser_lexemes = DefaultLexemes(kinds)
       \/ \E ts \in Strings(DisplayTokens, MaxDisplayTokens) :
              /\ parser_tokens = [i \in 1..Len(ts) |-> ts[i].kind]
              /\ parser_lexemes = [i \in 1..Len(ts) |-> ts[i].lexeme]
       \/ /\ parser_tokens = GroupExample.kinds
          /\ parser_lexemes = GroupExample.lexemes
    /\ parser_state = "ready"
    /\ parsed = NotParsed
    /\ displayed = << >>
    /\ ScannerIdle /\ TokenIdle /\ TrackerIdle /\ ErrorIdle

\* The arguments of two calls of Token::new
TokenInit ==
    /\ token_a_args \in TokenArgs
    /\ token_b_args \in TokenArgs
    /\ token_a = NoToken
    /\ token_b = NoToken
    /\ token_state = "args"
    /\ tokens_equal = FALSE
    /\ ScannerIdle /\ ParserIdle /\ TrackerIdle /\ ErrorIdle

\* PeekableLineColIterator::new(iter)
TrackerInit ==
    /\ tracker_chars \in Strings(TrackerAlphabet, MaxTrackerLen)
    /\ tracker_iter = tracker_chars
    /\ tracker_line = 1
    /\ tracker_column = 0
    /\ tracker_start_of_line = 0
    /\ tracker_peeked = NoChar
    /\ tracker_returned = << >>
    /\ tracker_call = [op |-> "new", returned |-> NoChar]
    /\ ScannerIdle /\ ParserIdle /\ TokenIdle /\ ErrorIdle

\* An error value about to be displayed
ErrorInit ==
    /\ shown_error \in ErrorValues
    /\ diagnostic = << >>
    /\ ScannerIdle /\ ParserIdle /\ TokenIdle /\ TrackerIdle

ScannerSpec == ScannerInit /\ [][ScannerNext]_vars

\* The scanner on the sources whose characters are all one byte long.
AsciiScannerInit == ScannerInit /\ \A i \in 1..Len(source) : source[i] # EACUTE
AsciiScannerSpec == AsciiScannerInit /\ [][ScannerNext]_vars

ParserNext == Parse \/ Show

ParserSpec == ParserInit /\ [][ParserNext]_vars

TokenSpec == TokenInit /\ [][TokenNext]_vars

TrackerSpec == TrackerInit /\ [][TrackerStep]_vars

ErrorSpec == ErrorInit /\ [][ErrorNext]_vars

Init == ScannerInit \/ ParserInit \/ TokenInit \/ TrackerInit \/ ErrorInit

Next == ScannerNext \/ ParserNext \/ TokenNext \/ TrackerStep \/ ErrorNext

Spec == Init /\ [][Next]_vars

(***************************************************************************)
(* Properties of the parser                                                *)
(***************************************************************************)
\* Every node of a tree, the tree itself included.
RECURSIVE Nodes(_)
Nodes(e) ==
    CASE e.node = "Binary" -> {e} \cup Nodes(e.left) \cup Nodes(e.right)
      [] e.node = "Grouping" -> {e} \cup Nodes(e.expression)
      [] e.node = "Unary" -> {e} \cup Nodes(e.right)
      [] OTHER -> {e}

\* The level of a binary operator in the ladder
\* equality < comparison < term < factor.
Level(kind) ==
    CASE kind \in {"BangEqual", "EqualEqual"} -> 1
      [] kind \in {"Greater", "GreaterEqual", "Less", "LessEqual"} -> 2
      [] kind \in {"Minus", "Plus"} -> 3
      [] kind \in {"Slash", "Star"} -> 4
      [] OTHER -> 0

\* The level of the operator of a Binary node of the parsed tree.
NodeLevel(n) == Level(parser_tokens[n.operator])

Accepted == parser_state = "done" /\ parsed.ok

\* The tokens of 1 + 2 * 3
OnePlusTwoTimesThree == << "Number", "Plus", "Number", "Star", "Number" >>

\* C1: in every accepted tree a direct operand of a Binary node of level L is
\* never a Binary node of a level below L, its operator is an operator of one
\* of the four levels, and the operand of a Unary node is a Unary, Literal or
\* Grouping node; 1 + 2 * 3 parses to Binary(1, +, Binary(2, *, 3)).
C1_PrecedenceLadder ==
    /\ Accepted =>
           \A n \in Nodes(parsed.expr) :
               /\ n.node = "Binary" =>
                      /\ NodeLevel(n) \in 1..4
                      /\ \A operand \in {n.left, n.right} :
                             operand.node = "Binary" => NodeLevel(operand) >= NodeLevel(n)
               /\ n.node = "Unary" =>
                      /\ parser_tokens[n.operator] \in {"Bang", "Minus"}
                      /\ n.right.node \in {"Unary", "Literal", "Grouping"}
    /\ parser_state = "done" /\ parser_tokens = OnePlusTwoTimesThree =>
           /\ parsed.ok
           /\ parsed.expr = Binary(Literal(1), 2, Binary(Literal(3), 4, Literal(5)))

\* 1 + 2 * 3 has been parsed into a tree whose right operand is the Binary
\* node of the higher level.
C1_Witness ==
    /\ Accepted
    /\ parser_tokens = OnePlusTwoTimesThree
    /\ parsed.expr.node = "Binary"
    /\ parsed.expr.right.node = "Binary"
    /\ NodeLevel(parsed.expr.right) > NodeLevel(parsed.expr)

\* The binary operators among the kinds drawn.
BinaryKinds == {"BangEqual", "EqualEqual", "Greater", "GreaterEqual", "Less",
                "LessEqual", "Minus", "Plus", "Slash", "Star"}

\* a op1 b op2 c with op1 and op2 of one level
IsSameLevelChain(toks) ==
    /\ Len(toks) = 5
    /\ toks[1] = "Number" /\ toks[3] = "Number" /\ toks[5] = "Number"
    /\ toks[2] \in BinaryKinds /\ toks[4] \in BinaryKinds
    /\ Level(toks[2]) = Level(toks[4])

\* C2: the direct right operand of a Binary node of level L is never a Binary
\* node of level L or lower, and a op1 b op2 c with both operators of one
\* level parses to Binary(Binary(a, op1, b), op2, c).
C2_LeftAssociative ==
    /\ Accepted =>
           \A n \in Nodes(parsed.expr) :
               n.node = "Binary" /\ n.right.node = "Binary" =>
                   NodeLevel(n.right) > NodeLevel(n)
    /\ parser_state = "done" /\ IsSameLevelChain(parser_tokens) =>
           /\ parsed.ok
           /\ parsed.expr = Binary(Binary(Literal(1), 2, Literal(3)), 4, Literal(5))

\* 1 - 2 + 3 has been parsed into a tree whose left operand is 1 - 2.
C2_Witness ==
    /\ Accepted
    /\ parser_tokens = << "Number", "Minus", "Number", "Plus", "Number" >>
    /\ parsed.expr.node = "Binary"
    /\ parsed.expr.left.node = "Binary"

\* How many of the first k tokens are `(`, less how many are `)`.
ParenDepth(toks, k) ==
    Cardinality({j \in 1..k : toks[j] = "LeftParen"})
        - Cardinality({j \in 1..k : toks[j] = "RightParen"})

\* The tokens parse() consumed.
Consumed == SubSeq(parser_tokens, 1, parsed.next - 1)

\* Every `)` closes an earlier `(`, and every `(` is closed.
Balanced(toks) ==
    /\ \A k \in 0..Len(toks) : ParenDepth(toks, k) >= 0
    /\ ParenDepth(toks, Len(toks)) = 0

\* The slice opens with `(`, what follows parses as an expression, and the
\* token after that expression is not `)` (or there is none).
OpensUnclosedGroup(toks) ==
    /\ toks # << >>
    /\ Head(toks) = "LeftParen"
    /\ Expression(Tail(toks), 1).ok
    /\ PeekKind(Tail(toks), Expression(Tail(toks), 1).next) # "RightParen"

\* The tokens of (1 + 2
UnbalancedExample == << "LeftParen", "Number", "Plus", "Number" >>

\* C3: a group whose inner expression is not followed by `)` makes parse()
\* return an error and no tree: the tokens of an accepted parse are balanced,
\* an UnclosedParenthesis error carries no tree, and (1 + 2 is rejected.
C3_UnbalancedParensFail ==
    parser_state = "done" =>
        /\ parsed.ok => Balanced(Consumed) /\ parsed.err = "None"
        /\ ~parsed.ok => parsed.expr = NoExpr
        /\ OpensUnclosedGroup(parser_tokens) =>
               ~parsed.ok /\ parsed.err = "UnclosedParenthesis"
        /\ parser_tokens = UnbalancedExample => ~parsed.ok

\* (1 + 2 has been rejected for its missing `)`.
C3_Witness ==
    /\ parser_state = "done"
    /\ parser_tokens = UnbalancedExample
    /\ ~parsed.ok
    /\ parsed.err = "UnclosedParenthesis"
    /\ parsed.expr = NoExpr

(***************************************************************************)
(* Properties of the scanner                                               *)
(***************************************************************************)
Finished == outcome # "scanning"

\* C4: the scanner never fails and never stops at a lexical error: it ends
\* with Ok(tokens) on every source, and after an invalid character it goes on
\* with the next line, so that "@\n*" gives an InvalidCharacter token and
\* then the Star of the second line.
C4_ScannerNeverFails ==
    /\ outcome \in {"scanning", "ok"}
    /\ Finished /\ source = SkippedLineExample =>
           tokens = << Tok("InvalidCharacter"), Tok("Star") >>

\* Where a block comment opened just before position i at the given depth
\* ends when comments nest: each "/*" adds one to the depth, each "*/" takes
\* one away, and the comment ends after the "*/" that brings it to 0.  The
\* result is the number of characters up to that end, or -1 when the comment
\* never ends.
RECURSIVE NestedCommentEnd(_, _, _)
NestedCommentEnd(s, i, depth) ==
    IF i + 1 > Len(s) THEN -1
    ELSE IF s[i] = "/" /\ s[i + 1] = "*" THEN NestedCommentEnd(s, i + 2, depth + 1)
    ELSE IF s[i] = "*" /\ s[i + 1] = "/"
         THEN IF depth = 1 THEN i + 1 ELSE NestedCommentEnd(s, i + 2, depth - 1)
    ELSE NestedCommentEnd(s, i + 1, depth)

\* The source is one block comment, nested comments counted.
IsOneNestedComment(s) ==
    /\ Len(s) >= 4
    /\ s[1] = "/" /\ s[2] = "*"
    /\ NestedCommentEnd(s, 3, 1) = Len(s)

\* C5: block comments nest: a source that is one block comment by the depth
\* count, such as "/* a /* b */ c */", is scanned entirely as a comment, and
\* no token is produced from the text after its first "*/".
C5_BlockCommentsNest ==
    Finished /\ IsOneNestedComment(source) => outcome = "ok" /\ tokens = << >>

\* The 1-based position of the first '"' after the opening one that is not
\* immediately preceded by '\', or 0.
FirstUnescapedQuote(s) ==
    IF \E i \in 2..Len(s) : s[i] = QUOTE /\ s[i - 1] # BACKSLASH
    THEN CHOOSE i \in 2..Len(s) :
             /\ s[i] = QUOTE /\ s[i - 1] # BACKSLASH
             /\ \A j \in 2..(i - 1) : ~(s[j] = QUOTE /\ s[j - 1] # BACKSLASH)
    ELSE 0

\* The source is one string literal ending at its first unescaped '"'.
IsOneStringLiteral(s) ==
    /\ Len(s) >= 2
    /\ s[1] = QUOTE
    /\ FirstUnescapedQuote(s) = Len(s)

\* C6: a string literal ends at its first unescaped '"': a source that is one
\* such literal, like "a\"b", scans as exactly one String token holding all
\* the text between the two quotes, the escaped quote included.
C6_EscapedQuoteDoesNotTerminate ==
    Finished /\ IsOneStringLiteral(source) =>
        /\ outcome = "ok"
        /\ tokens = << TokText("String", SubSeq(source, 2, Len(source) - 1)) >>

\* The 16 reserved words.
KeywordLexemes ==
    {<<"a", "n", "d">>, <<"c", "l", "a", "s", "s">>, <<"e", "l", "s", "e">>,
     <<"f", "a", "l", "s", "e">>, <<"f", "u", "n">>, <<"f", "o", "r">>,
     <<"i", "f">>, <<"n", "i", "l">>, <<"o", "r">>,
     <<"p", "r", "i", "n", "t">>, <<"r", "e", "t", "u", "r", "n">>,
     <<"s", "u", "p", "e", "r">>, <<"t", "h", "i", "s">>,
     <<"t", "r", "u", "e">>, <<"v", "a", "r">>, <<"w", "h", "i", "l", "e">>}

\* The longest run of '_' and ASCII letters and digits that starts at the
\* character the scanner is at.
SymbolRun ==
    SubSeq(source, pos + 1,
           pos + 1 + CountWhile(Drop(source, pos + 1), {"_"} \cup Letters \cup Digits))

\* The last token pushed in a step.
Pushed == tokens'[Len(tokens')]

\* C7: at '_' or an ASCII letter the scanner consumes the longest run of
\* '_' and ASCII alphanumerics as one lexeme and pushes one token for it: a
\* keyword token if and only if the lexeme is one of the 16 reserved words,
\* otherwise the Identifier of that lexeme.
C7_MaximalMunchSymbols ==
    [][Scanning /\ (c = "_" \/ c \in Letters) =>
           /\ outcome' = "scanning"
           /\ pos' = pos + Len(SymbolRun)
           /\ Len(tokens') = Len(tokens) + 1
           /\ SubSeq(tokens', 1, Len(tokens)) = tokens
           /\ Pushed.kind # "Identifier" <=> SymbolRun \in KeywordLexemes
           /\ Pushed.kind = "Identifier" => Pushed.text = SymbolRun
           /\ Pushed.kind # "Identifier" => Pushed = Tok(KeywordOf(SymbolRun))]_vars

\* The token of an operator character alone, and of it with a '=' behind.
OperatorAlone(ch) ==
    CASE ch = "!" -> "Bang" [] ch = "=" -> "Equal"
      [] ch = "<" -> "Less" [] ch = ">" -> "Greater"
OperatorWithEqual(ch) ==
    CASE ch = "!" -> "BangEqual" [] ch = "=" -> "EqualEqual"
      [] ch = "<" -> "LessEqual" [] ch = ">" -> "GreaterEqual"

\* One step at '!', '=', '<' or '>': followed by '=' it pushes the
\* two-character token and consumes two characters, otherwise the
\* one-character token and one character.
GreedyOperatorStep ==
    Scanning /\ c \in {"!", "=", "<", ">"} =>
        IF pos + 2 <= Len(source) /\ source[pos + 2] = "="
        THEN /\ tokens' = Append(tokens, [kind |-> OperatorWithEqual(c), text |-> << >>])
             /\ pos' = pos + 2
             /\ outcome' = "scanning"
        ELSE /\ tokens' = Append(tokens, [kind |-> OperatorAlone(c), text |-> << >>])
             /\ pos' = pos + 1
             /\ outcome' = "scanning"

\* C8: '!', '=', '<', '>' are scanned greedily with one character of
\* lookahead, and "!=<=>===" yields BangEqual, LessEqual, GreaterEqual,
\* EqualEqual.
C8_GreedyOperators ==
    /\ [][GreedyOperatorStep]_vars
    /\ [](Finished /\ source = OperatorsExample =>
              /\ outcome = "ok"
              /\ tokens = << Tok("BangEqual"), Tok("LessEqual"),
                             Tok("GreaterEqual"), Tok("EqualEqual") >>)

\* "!=<=>===" has been scanned to its four tokens.
C8_Witness ==
    /\ outcome = "ok"
    /\ source = OperatorsExample
    /\ Len(tokens) = 4
    /\ tokens[1].kind = "BangEqual"
    /\ tokens[4].kind = "EqualEqual"

\* The number at the character the scanner is at: the longest run of digits,
\* and a '.' with the run of digits behind it when there is at least one.
NumberRun ==
    LET rest     == Drop(source, pos + 1)
        digits   == CountWhile(rest, Digits)
        after    == Drop(rest, digits)
        fraction == Len(after) >= 2 /\ after[1] = "." /\ after[2] \in Digits
        length   == IF fraction
                    THEN 1 + digits + 1 + CountWhile(Drop(after, 1), Digits)
                    ELSE 1 + digits
    IN  SubSeq(source, pos + 1, pos + length)

\* C9: at a digit the scanner pushes one Number for the longest run of
\* digits with, when a digit follows it, one '.' and the digits behind it; a
\* '.' or '-' the scanner is at is a Dot or a Minus of its own; and "1.2.3"
\* yields Number(1.2), Dot, Number(3).
C9_NumberLiterals ==
    /\ [][/\ Scanning /\ c \in Digits =>
                 /\ outcome' = "scanning"
                 /\ pos' = pos + Len(NumberRun)
                 /\ tokens' = Append(tokens, TokText("Number", ParseF32(NumberRun).chars))
          /\ Scanning /\ c = "." =>
                 /\ pos' = pos + 1
                 /\ tokens' = Append(tokens, Tok("Dot"))
          /\ Scanning /\ c = "-" =>
                 /\ pos' = pos + 1
                 /\ tokens' = Append(tokens, Tok("Minus"))]_vars
    /\ [](Finished /\ source = NumbersExample =>
              tokens = << TokText("Number", << "1", ".", "2" >>), Tok("Dot"),
                          TokText("Number", << "3" >>) >>)

\* The 1-based position of the last newline among the first i characters of
\* s, or 0.
LastNewlineBefore(s, i) ==
    IF \E k \in 1..i : s[k] = NL
    THEN CHOOSE k \in 1..i : s[k] = NL /\ \A j \in (k + 1)..i : s[j] # NL
    ELSE 0

\* The text of the line that holds the character of index i (0-based).
LineTextAt(s, i) ==
    LET start == LastNewlineBefore(s, i)
        rest  == Drop(s, start)
        stop  == Position(rest, {NL})
    IN  IF stop = -1 THEN rest ELSE Take(rest, stop)

\* C10: an invalid character reported at character index i has line_number 1
\* plus the number of newlines before i, column_number its 1-based position
\* in its line, and source_line the text of that line, wherever the newlines
\* before it lie; in "ok\nbad@" the '@' is at line 2, column 4 of "bad@".
C10_LineColumnExact ==
    /\ outcome = "err" /\ error.kind = "InvalidSyntax" =>
           /\ error.line_number = 1 + NewlineCount(SubSeq(source, 1, pos))
           /\ error.column_number = pos - LastNewlineBefore(source, pos) + 1
           /\ error.source_line = LineTextAt(source, pos)
    /\ Finished /\ source = LineColumnExample =>
           /\ outcome = "err"
           /\ error = [kind |-> "InvalidSyntax",
                       source_line |-> << "b", "a", "d", "@" >>,
                       line_number |-> 2, column_number |-> 4]

\* From the 1-based position i on, s holds only blanks (space, tab, carriage
\* return, newline), line comments, and block comments that are terminated,
\* nested comments counted.
RECURSIVE IsBlankAndComments(_, _)
IsBlankAndComments(s, i) ==
    IF i > Len(s) THEN TRUE
    ELSE IF s[i] \in {" ", TAB, CR, NL} THEN IsBlankAndComments(s, i + 1)
    ELSE IF s[i] = "/" /\ i + 1 <= Len(s) /\ s[i + 1] = "/"
         THEN LET stop == Position(Drop(s, i + 1), {NL})
              IN  stop = -1 \/ IsBlankAndComments(s, i + stop + 3)
    ELSE IF s[i] = "/" /\ i + 1 <= Len(s) /\ s[i + 1] = "*"
         THEN LET end == NestedCommentEnd(s, i + 2, 1)
              IN  end # -1 /\ IsBlankAndComments(s, end + 1)
    ELSE FALSE

\* The tokens that are not comments.
NonCommentTokens ==
    SelectSeq(tokens, LAMBDA t : t.kind \notin {"LineComment", "BlockComment"})

\* C11: a source made up only of blanks, line comments and terminated block
\* comments, nested ones included, scans to the end with no token other than
\* comment tokens.
C11_OnlyCommentsNoTokens ==
    Finished /\ IsBlankAndComments(source, 1) =>
        outcome = "ok" /\ NonCommentTokens = << >>

(***************************************************************************)
(* Properties of Token                                                     *)
(***************************************************************************)
Compared == token_state = "compared"

LexicalErrorKinds == {"UnterminatedString", "UnterminatedBlockComment", "InvalidCharacter"}

Parsed == parser_state = "done"

\* C13 as stated: a slice holding a lexical-error token at any position is
\* never parsed to a tree.
C13_ErrorTokenAnywhereFails ==
    Parsed /\ (\E i \in 1..Len(parser_tokens) : parser_tokens[i] \in LexicalErrorKinds) =>
        ~parsed.ok

\* The kinds of the tokens that are an operand of their own.
LiteralKinds == {"Keyword(True)", "Keyword(False)", "Keyword(Nil)", "Number", "String"}

\* AsksOperand: after the first n tokens parse() asks for an operand: it has
\* consumed nothing, or a unary operator or a `(` where an operand was asked
\* for, or a binary operator behind a complete operand.  HasOperand: after
\* the first n tokens an operand is complete: a literal where one was asked
\* for, or a `)` behind a complete operand inside an open group.
RECURSIVE AsksOperand(_, _)
RECURSIVE HasOperand(_, _)
AsksOperand(toks, n) ==
    \/ n = 0
    \/ /\ n >= 1
       /\ \/ toks[n] \in {"Bang", "Minus", "LeftParen"} /\ AsksOperand(toks, n - 1)
          \/ toks[n] \in BinaryKinds /\ HasOperand(toks, n - 1)
HasOperand(toks, n) ==
    /\ n >= 1
    /\ \/ toks[n] \in LiteralKinds /\ AsksOperand(toks, n - 1)
       \/ toks[n] = "RightParen" /\ ParenDepth(toks, n) >= 0 /\ HasOperand(toks, n - 1)

\* C13, amended: parse() fails on every lexical-error token it reaches: no
\* tree is returned whose consumed tokens hold one, and a slice whose first
\* lexical-error token stands where an operand is asked for is never parsed
\* to a tree: the error is UnterminatedString or UnterminatedBlockComment
\* for a token of that kind, ParseError for InvalidCharacter.
C13_ErrorTokenReachedFails ==
    /\ Parsed /\ parsed.ok =>
           \A i \in 1..(parsed.next - 1) : parser_tokens[i] \notin LexicalErrorKinds
    /\ Parsed =>
           \A i \in 1..Len(parser_tokens) :
               /\ parser_tokens[i] \in LexicalErrorKinds
               /\ AsksOperand(parser_tokens, i - 1)
               => /\ ~parsed.ok
                  /\ parsed.next = i
                  /\ parsed.err = IF parser_tokens[i] = "InvalidCharacter"
                                  THEN "ParseError" ELSE parser_tokens[i]

\* 1 + ( "a has been parsed: the unterminated string stands where the
\* operand of the group is asked for, and parse() returned its error.
C13_Witness ==
    /\ Parsed
    /\ parser_tokens = << "Number", "Plus", "LeftParen", "UnterminatedString" >>
    /\ ~parsed.ok
    /\ parsed.err = "UnterminatedString"

\* C14: a successful parse consumes a prefix of the slice and reports
\* nothing about the rest: when parse() returns a tree after consuming the
\* first k tokens, k may be less than the length of the slice, no error is
\* returned, and parse() on those k tokens alone returns the same tree,
\* having consumed all of them; the tokens of `1 2` parse to Literal(1).
C14_TrailingTokensIgnored ==
    /\ Parsed /\ parsed.ok =>
           /\ parsed.next - 1 \in 1..Len(parser_tokens)
           /\ parsed.error = NoError
           /\ Expression(Take(parser_tokens, parsed.next - 1), 1) = parsed
    /\ Parsed /\ parser_tokens = << "Number", "Number" >> =>
           /\ parsed.ok
           /\ parsed.expr = Literal(1)
           /\ parsed.next = 2

\* The tokens of `1 + 2 2 *` have been parsed: three tokens consumed, two left.
C14_Witness ==
    /\ Parsed
    /\ parser_tokens = << "Number", "Plus", "Number", "Number", "Star" >>
    /\ parsed.ok
    /\ parsed.next = 4

\* The one-line source the tokens of the slice were cut from: the lexemes in
\* order, a single space between two of them.
RECURSIVE JoinLexemes(_)
JoinLexemes(lexemes) ==
    IF lexemes = << >> THEN << >>
    ELSE IF Len(lexemes) = 1 THEN lexemes[1]
    ELSE lexemes[1] \o << SPACE >> \o JoinLexemes(Tail(lexemes))

\* The 1-based column, in characters, of the i-th token in that source.
TokenColumn(i) ==
    LET text  == JoinLexemes(parser_lexemes)
        start == TokenStart(parser_lexemes, i)
    IN  Cardinality({j \in 1..start : text[j] # EACUTE_BYTE2}) + 1

\* The token a failed parse() stopped at, 0 when it ran out of tokens: the
\* token that is no operand, or the token found where `)` was due.
OffendingToken ==
    IF parsed.err = "UnclosedParenthesis"
    THEN IF HasOperand(parser_tokens, parsed.next - 1) THEN 0 ELSE parsed.next - 1
    ELSE IF parsed.next <= Len(parser_tokens) THEN parsed.next ELSE 0

\* C15: the error of a failed parse() carries the position of the failure:
\* source_line is the text of the line of the offending token, line_number
\* its line, and column_number its column.
C15_ErrorCarriesPosition ==
    Parsed /\ ~parsed.ok =>
        /\ parsed.error.source_line = JoinLexemes(parser_lexemes)
        /\ parsed.error.line_number = 1
        /\ OffendingToken # 0 => parsed.error.column_number = TokenColumn(OffendingToken)

(***************************************************************************)
(* Properties of Display                                                   *)
(***************************************************************************)
Shown == parser_state = "shown"

\* The text of a lexeme as a token shows it: the lexeme when it has at most
\* 7 bytes, else its first 7 bytes and the truncation marker.
ShownLexeme(lexeme) ==
    IF Len(lexeme) <= 7 THEN lexeme ELSE SubSeq(lexeme, 1, 7) \o TruncationMarker

\* Fully parenthesised prefix notation of a tree over the lexemes of the
\* slice.
RECURSIVE PrefixNotation(_)
PrefixNotation(e) ==
    CASE e.node = "Binary" ->
             << "(" >> \o ShownLexeme(parser_lexemes[e.operator]) \o << " " >>
                 \o PrefixNotation(e.left) \o << " " >> \o PrefixNotation(e.right)
                 \o << ")" >>
      [] e.node = "Unary" ->
             << "(" >> \o ShownLexeme(parser_lexemes[e.operator]) \o << " " >>
                 \o PrefixNotation(e.right) \o << ")" >>
      [] e.node = "Grouping" ->
             << "(", "g", "r", "o", "u", "p", " " >> \o PrefixNotation(e.expression)
                 \o << ")" >>
      [] e.node = "Literal" -> ShownLexeme(parser_lexemes[e.value])

\* C16: the text displayed for a tree is its fully parenthesised prefix
\* notation: (<op> <left> <right>), (<op> <right>), (group <inner>), and for
\* a literal the lexeme of its token, cut to its first 7 bytes and followed
\* by the truncation marker when it is longer; (1 + 2.0) is displayed as
\* (group (+ 1 2.0)).
C16_DisplayPrefixNotation ==
    /\ Shown => displayed = PrefixNotation(parsed.expr)
    /\ Shown /\ parser_tokens = GroupExample.kinds /\ parser_lexemes = GroupExample.lexemes =>
           displayed = << "(", "g", "r", "o", "u", "p", " ", "(", "+", " ", "1", " ",
                          "2", ".", "0", ")", ")" >>

\* -12345678 has been displayed: a unary node over a literal whose lexeme is
\* one byte longer than the view, shown cut and marked.
C16_Witness ==
    /\ Shown
    /\ parser_lexemes = << << "-" >>, << "1", "2", "3", "4", "5", "6", "7", "8" >> >>
    /\ displayed = << "(", "-", " ", "1", "2", "3", "4", "5", "6", "7" >>
                       \o TruncationMarker \o << ")" >>

(***************************************************************************)
(* Properties of PeekableLineColIterator                                   *)
(***************************************************************************)
\* The characters next() returned since the last newline it returned.
SinceLastNewline(s) == Len(s) - LastNewlineBefore(s, Len(s))

Undelivered ==
    IF Len(tracker_returned) < Len(tracker_chars)
    THEN tracker_chars[Len(tracker_returned) + 1]
    ELSE NoChar

\* C18: peek() changes neither line, column, offset nor what next() has
\* returned, and returns the first character next() has not returned yet,
\* however often it is called; next() returns that same character, so the
\* characters it returns are the input in order, none skipped or repeated;
\* at the end both return no character and the coordinates stay.
C18_PeekDoesNotAdvance ==
    /\ [](tracker_returned = Take(tracker_chars, Len(tracker_returned)))
    /\ [][/\ tracker_call'.op = "peek" =>
                 /\ tracker_call'.returned = Undelivered
                 /\ UNCHANGED << tracker_line, tracker_column, tracker_start_of_line,
                                 tracker_returned >>
          /\ tracker_call'.op = "next" =>
                 /\ tracker_call'.returned = Undelivered
                 /\ Undelivered = NoChar =>
                        UNCHANGED << tracker_line, tracker_column,
                                     tracker_start_of_line, tracker_returned >>]_vars

\* After next() returned a and a newline, peek() has returned the a behind
\* them and the tracker is still at line 2, column 0.
C18_Witness ==
    /\ tracker_call = [op |-> "peek", returned |-> "a"]
    /\ tracker_returned = << "a", NL >>
    /\ TrackerLine = 2
    /\ TrackerColumn = 0

(***************************************************************************)
(* Properties of the display of errors                                     *)
(***************************************************************************)
Rendered == diagnostic # << >>

\* The number a text of decimal digits stands for, -1 when it is no such
\* text.
RECURSIVE DecimalValue(_)
DecimalValue(text) ==
    IF text = << >> \/ text[Len(text)] \notin Digits THEN -1
    ELSE LET last == CHOOSE d \in 0..9 : DigitChar(d) = text[Len(text)]
         IN  IF Len(text) = 1 THEN last
             ELSE LET front == DecimalValue(SubSeq(text, 1, Len(text) - 1))
                  IN  IF front = -1 THEN -1 ELSE 10 * front + last

\* The text is `<error name>, line <line_number>`.
IsHeaderLine(text, kind, line_number) ==
    LET start == ErrorName(kind) \o << ",", " ", "l", "i", "n", "e", " " >>
    IN  /\ Len(text) > Len(start)
        /\ SubSeq(text, 1, Len(start)) = start
        /\ DecimalValue(SubSeq(text, Len(start) + 1, Len(text))) = line_number

\* The text is (column_number - 1) times '-' and one '^'.
IsMarkerLine(text, column_number) ==
    /\ Len(text) = column_number
    /\ \A i \in 1..(column_number - 1) : text[i] = "-"
    /\ text[column_number] = "^"

\* C19: the text displayed for an error of any variant with a column of at
\* least 1 is three lines: `<error name>, line <line_number>`, the source
\* line, and (column_number - 1) times '-' followed by one '^'; for column 7
\* the marker is ------^.
C19_ThreeLineDiagnostic ==
    /\ Rendered /\ shown_error.column_number >= 1 =>
           LET lines == Lines(diagnostic)
           IN  /\ Len(lines) = 3
               /\ IsHeaderLine(lines[1], shown_error.kind, shown_error.line_number)
               /\ lines[2] = shown_error.source_line
               /\ IsMarkerLine(lines[3], shown_error.column_number)
    /\ Rendered /\ shown_error.column_number = 7 =>
           Lines(diagnostic)[3] = << "-", "-", "-", "-", "-", "-", "^" >>

\* The error of test::invalid_character has been displayed: invalid
\* character, line 1 of "class @bad", column 7.
C19_Witness ==
    /\ Rendered
    /\ shown_error = [kind |-> "InvalidCharacter", source_line |-> ClassBadLine,
                      line_number |-> 1, column_number |-> 7]
    /\ Lines(diagnostic)[3] = << "-", "-", "-", "-", "-", "-", "^" >>

(***************************************************************************)
(* The character index and the slices of the source                        *)
(***************************************************************************)
\* C20: on every source tokens() returns without panicking, and the text of
\* every String, Number and Identifier token, and the text looked up in the
\* keyword table, is the text of the characters the scanner consumed for
\* it: between the quotes for a String, the whole run for the others.
C20_IndexAndSliceAgree ==
    /\ [](outcome # "panic")
    /\ [][Len(tokens') = Len(tokens) + 1 =>
              LET consumed == SubSeq(source, pos + 1, pos')
              IN  /\ Pushed.kind = "String" =>
                         consumed = << QUOTE >> \o Pushed.text \o << QUOTE >>
                  /\ Pushed.kind = "Number" => Pushed.text = ParseF32(consumed).chars
                  /\ Pushed.kind = "Identifier" => Pushed.text = consumed
                  /\ c = "_" \/ c \in Letters =>
                         Pushed = IF consumed \in KeywordLexemes
                                  THEN Tok(KeywordOf(consumed))
                                  ELSE TokText("Identifier", consumed)]_vars

(***************************************************************************)
(* The tree and the tokens consumed                                        *)
(***************************************************************************)
\* The tokens of a tree in order: left, operator, right for Binary;
\* operator, right for Unary; the inner tree for Grouping.
RECURSIVE InOrder(_)
InOrder(e) ==
    CASE e.node = "Binary" -> InOrder(e.left) \o << e.operator >> \o InOrder(e.right)
      [] e.node = "Unary" -> << e.operator >> \o InOrder(e.right)
      [] e.node = "Grouping" -> InOrder(e.expression)
      [] e.node = "Literal" -> << e.value >>

\* How many Grouping nodes a tree has.
RECURSIVE GroupingCount(_)
GroupingCount(e) ==
    CASE e.node = "Binary" -> GroupingCount(e.left) + GroupingCount(e.right)
      [] e.node = "Unary" -> GroupingCount(e.right)
      [] e.node = "Grouping" -> 1 + GroupingCount(e.expression)
      [] e.node = "Literal" -> 0

\* The consumed tokens other than `(` and `)`, in the order of the slice.
ConsumedNonParens ==
    SelectSeq([i \in 1..(parsed.next - 1) |-> i],
              LAMBDA i : parser_tokens[i] \notin {"LeftParen", "RightParen"})

\* How many of the consumed tokens are of the kind.
ConsumedOfKind(kind) ==
    Cardinality({i \in 1..(parsed.next - 1) : parser_tokens[i] = kind})

\* C21: a tree parse() returns is built from exactly the tokens consumed:
\* its in-order traversal lists every consumed token other than `(` and `)`
\* once, in the order of the slice, each at a place of its kind (a literal
\* as a Literal value, an operator as an operator), and it has as many
\* Grouping nodes as `(` were consumed and as `)` were consumed.
C21_TreeFromConsumedTokens ==
    Accepted =>
        /\ InOrder(parsed.expr) = ConsumedNonParens
        /\ GroupingCount(parsed.expr) = ConsumedOfKind("LeftParen")
        /\ GroupingCount(parsed.expr) = ConsumedOfKind("RightParen")
        /\ \A n \in Nodes(parsed.expr) :
               /\ n.node = "Literal" => parser_tokens[n.value] \in LiteralKinds
               /\ n.node = "Binary" => parser_tokens[n.operator] \in BinaryKinds
               /\ n.node = "Unary" => parser_tokens[n.operator] \in {"Bang", "Minus"}

\* The tokens of `- ( 1 ) 2` have been parsed: four are consumed, the `-`
\* and the 1 are in the tree in order under one Grouping node for the pair
\* of parentheses, and the fifth token is left.
C21_Witness ==
    /\ Accepted
    /\ parser_tokens = << "Minus", "LeftParen", "Number", "RightParen", "Number" >>
    /\ parsed.next = 5
    /\ InOrder(parsed.expr) = << 1, 3 >>
    /\ GroupingCount(parsed.expr) = 1

====
